---- MODULE Spec2Model ----
(***************************************************************************)
(* Model of qlib/backtest/report.py: the Indicator class (per-step order   *)
(* and trade indicators, their aggregation over inner executors, the       *)
(* baseline pricer and the two archived histories).                        *)
(*                                                                         *)
(* Numbers.  A float is modelled as an exact fraction [n, d] with d >= 0   *)
(* in lowest terms.  d = 0 encodes the IEEE specials the code produces by  *)
(* dividing by zero: 0/0 is NaN (pandas' missing value), 1/0 is +inf and   *)
(* -1/0 is -inf.  Rounding is not modelled.                                *)
(***************************************************************************)
EXTENDS Integers, Sequences, FiniteSets, TLC

\* ------------------------------------------------------------------ bounds
MaxLen == 4
MaxChildren == 2
MaxOps == 5
MaxTime == 3

\* ----------------------------------------------------------------- numbers
RECURSIVE GCD(_, _)
GCD(a, b) == IF b = 0 THEN a ELSE GCD(b, a % b)

Abs(x) == IF x < 0 THEN -x ELSE x

Sgn(x) == IF x < 0 THEN -1 ELSE IF x > 0 THEN 1 ELSE 0

Norm(n, d) ==
    IF d = 0 THEN [n |-> Sgn(n), d |-> 0]
    ELSE LET g == GCD(Abs(n), Abs(d))
             s == Sgn(d)
         IN  [n |-> (s * n) \div g, d |-> (s * d) \div g]

Num(i) == [n |-> i, d |-> 1]

NaN == [n |-> 0, d |-> 0]

IsNaN(x) == x.n = 0 /\ x.d = 0

IsInf(x) == x.n # 0 /\ x.d = 0

IsFinite(x) == x.d > 0

Neg(x) == [n |-> -x.n, d |-> x.d]

FAbs(x) == [n |-> Abs(x.n), d |-> x.d]

Add(x, y) ==
    IF IsInf(x) /\ IsInf(y) THEN (IF x.n = y.n THEN x ELSE NaN)
    ELSE Norm(x.n * y.d + y.n * x.d, x.d * y.d)

Sub(x, y) == Add(x, Neg(y))

Mul(x, y) == Norm(x.n * y.n, x.d * y.d)

Inv(x) == IF x.n < 0 THEN [n |-> -x.d, d |-> -x.n] ELSE [n |-> x.d, d |-> x.n]

Div(x, y) == Mul(x, Inv(y))

\* x < y on floats: every comparison with NaN is false.
Lt(x, y) ==
    /\ ~IsNaN(x)
    /\ ~IsNaN(y)
    /\ IF IsFinite(x) /\ IsFinite(y) THEN x.n * y.d < y.n * x.d
       ELSE IF IsInf(x) /\ IsInf(y) THEN x.n < y.n
       ELSE IF IsInf(x) THEN x.n < 0
       ELSE y.n > 0

\* ------------------------------------------------ pandas Series reductions
\* A Series is a function from its index (a set of labels) to floats.
RECURSIVE SumSkipNa(_, _)
SumSkipNa(f, S) ==
    IF S = {} THEN Num(0)
    ELSE LET i == CHOOSE j \in S : TRUE
             rest == SumSkipNa(f, S \ {i})
         IN  IF IsNaN(f[i]) THEN rest ELSE Add(f[i], rest)

CountNotNa(f, S) == Cardinality({i \in S : ~IsNaN(f[i])})

\* ------------------------------------------------------- baseline pricer
Unset == "<unset>"

\* dict.get(key, default)
ConfigGet(v, default) == IF v = Unset THEN default ELSE v

\* str.lower() on the policy names the model draws
Lower(s) ==
    CASE s = "TWAP" -> "twap"
      [] s = "VWAP" -> "vwap"
      [] s = "Deal_Price" -> "deal_price"
      [] OTHER -> s

EPS == [n |-> 1, d |-> 100000000]

\* the filter written as price_s[price_s >= 1e-08], which also drops NaN
RemainingGe(price_s) ==
    {i \in DOMAIN price_s : ~IsNaN(price_s[i]) /\ ~Lt(price_s[i], EPS)}

\* price_s[~(price_s < 1e-08)]: the index labels that stay
Remaining(price_s) == {i \in DOMAIN price_s : ~Lt(price_s[i], EPS)}

\* volume_s.reindex(price_s.index): a label the volume lacks reads NaN
Reindex(s, idx) == [i \in idx |-> IF i \in DOMAIN s THEN s[i] ELSE NaN]

Raise(e) == [raised |-> e, ret |-> "none", bp |-> NaN, bv |-> NaN]

ReturnNone == [raised |-> "none", ret |-> "absent", bp |-> NaN, bv |-> NaN]

Return(bp, bv) == [raised |-> "none", ret |-> "value", bp |-> bp, bv |-> bv]

\* Indicator._get_base_vol_pri.  range is decision.trade_range; price_q and
\* vol_q are what trade_exchange.get_deal_price / get_volume answer for the
\* (clipped) window: [kind |-> "none"], [kind |-> "raise"], a scalar
\* [kind |-> "scalar", s |-> <<v>>] or [kind |-> "series", s |-> ...].
_get_base_vol_pri(cfg, range, price_q, vol_q) ==
    LET agg == Lower(ConfigGet(cfg.agg, "twap"))
        price == Lower(ConfigGet(cfg.price, "deal_price"))
    IN
    IF range = "IdxTradeRange" THEN Raise("TypeError")
    ELSE IF price # "deal_price" THEN Raise("NotImplementedError")
    ELSE IF price_q.kind = "raise" THEN Raise("QueryError")
    ELSE IF price_q.kind = "none" THEN ReturnNone
    ELSE
    LET idx == Remaining(price_q.s)
        price_s == [i \in idx |-> price_q.s[i]]
    IN
    IF agg \notin {"vwap", "twap"} THEN Raise("NotImplementedError")
    ELSE IF agg = "vwap" /\ vol_q.kind = "raise" THEN Raise("QueryError")
    ELSE IF agg = "vwap" /\ vol_q.kind = "none" THEN Raise("AttributeError")
    ELSE
    LET volume_s == IF agg = "vwap" THEN Reindex(vol_q.s, idx)
                    ELSE [i \in idx |-> Num(1)]
        pv == [i \in idx |-> Mul(price_s[i], volume_s[i])]
        base_volume == SumSkipNa(volume_s, idx)
        base_price == Div(SumSkipNa(pv, idx), base_volume)
    IN  Return(base_price, base_volume)

\* -------------------------------------------------- inputs of the pricer
Tiny == [n |-> 1, d |-> 1000000000]

PriceEntries == {Num(0), Tiny, Num(-1), Num(5), Num(6), NaN}

RECURSIVE SeqsUpTo(_, _)
SeqsUpTo(S, n) ==
    IF n = 0 THEN {<<>>}
    ELSE LET shorter == SeqsUpTo(S, n - 1)
         IN  shorter \cup {Append(q, x) : q \in {r \in shorter : Len(r) = n - 1}, x \in S}

NoData == [kind |-> "none", s |-> <<>>]

QueryFails == [kind |-> "raise", s |-> <<>>]

PriceOutcomes(n) ==
    {NoData, QueryFails}
      \cup {[kind |-> "scalar", s |-> <<v>>] : v \in PriceEntries}
      \cup {[kind |-> "series", s |-> q] : q \in SeqsUpTo(PriceEntries, n)}

VolumeOutcomes ==
    {NoData,
     [kind |-> "series", s |-> [i \in 1..MaxLen |-> Num(i)]],
     [kind |-> "series", s |-> [i \in {1} |-> Num(3)]]}

PaConfigs == [agg : {Unset, "TWAP", "vwap", "median"},
              price : {Unset, "Deal_Price", "$close"}]

TradeRanges == {"None", "IdxTradeRange", "TradeRangeByTime"}

PriInputs ==
    [cfg : PaConfigs, range : TradeRanges, price_q : PriceOutcomes(2),
     vol_q : VolumeOutcomes]
      \cup [cfg : PaConfigs, range : {"None"}, price_q : PriceOutcomes(MaxLen),
            vol_q : {NoData}]

\* ------------------------------------------------------------ MetricTable
\* PandasOrderIndicator.data: a function from the names of the columns it
\* holds to Series; a Series is a function from the instruments it lists to
\* floats.  An instrument a Series does not list is absent from it, which is
\* not the same as listed with the value NaN.
EmptySeries == <<>>

EmptyTable == <<>>

assign(data, col, metric) ==
    [c \in (DOMAIN data) \cup {col} |-> IF c = col THEN metric ELSE data[c]]

get_metric_series(data, col) == IF col \in DOMAIN data THEN data[col] ELSE EmptySeries

HasColumns(data, cols) == cols \subseteq DOMAIN data

\* the outcome of a step on the table: the table it leaves and what it raised
Ok(data) == [data |-> data, raised |-> "none"]

Failed(data, e) == [data |-> data, raised |-> e]

\* binary arithmetic of two Series: pandas aligns on the union of the two
\* indexes and gives NaN wherever either side lacks the label
SeriesOp(Op(_, _), a, b) ==
    [i \in (DOMAIN a) \cup (DOMAIN b) |->
        IF i \in DOMAIN a /\ i \in DOMAIN b THEN Op(a[i], b[i]) ELSE NaN]

\* Series.replace({old: new})
SeriesReplace(a, old, new) == [i \in DOMAIN a |-> IF a[i] = old THEN new ELSE a[i]]

SeriesMap(Op(_), a) == [i \in DOMAIN a |-> Op(a[i])]

SeriesSum(a) == SumSkipNa(a, DOMAIN a)

SeriesCount(a) == CountNotNa(a, DOMAIN a)

SeriesMean(a) == Div(SeriesSum(a), Num(SeriesCount(a)))

\* sum_all_indicators(indicators, metrics, fill_value=0), one metric: the
\* union of the children's instruments, a missing entry counted as 0
RECURSIVE SumChildren(_, _, _)
SumChildren(tables, metric, i) ==
    IF tables = <<>> THEN Num(0)
    ELSE LET s == Head(tables)[metric]
             v == IF i \in DOMAIN s /\ ~IsNaN(s[i]) THEN s[i] ELSE Num(0)
         IN  Add(v, SumChildren(Tail(tables), metric, i))

sum_all_indicators(tables, metric) ==
    LET idx == UNION {DOMAIN tables[k][metric] : k \in DOMAIN tables}
    IN  [i \in idx |-> SumChildren(tables, metric, i)]

\* Order.parse_dir on a number: BUY (1) when positive, else SELL (0)
parse_dir(d) == IF Lt(Num(0), d) THEN Num(1) ELSE Num(0)

\* ------------------------------------------------------- leaf recording
\* the dict a loop over trade_info builds: a later order of the same stock
\* overwrites an earlier one
LastOf(trade_info, i) ==
    CHOOSE k \in DOMAIN trade_info :
        /\ trade_info[k].stock_id = i
        /\ \A j \in DOMAIN trade_info : trade_info[j].stock_id = i => j <= k

DictOf(trade_info, F(_)) ==
    [i \in {trade_info[k].stock_id : k \in DOMAIN trade_info} |->
        F(trade_info[LastOf(trade_info, i)])]

TiAmount(e) == e.amount_delta

TiDealAmount(e) == e.deal_amount_delta

TiTradePrice(e) == e.trade_price

TiTradeValue(e) == Mul(e.trade_val, e.sign)

TiTradeCost(e) == e.trade_cost

TiTradeDir(e) == e.direction

TiPa(e) == Num(0)

_update_order_trade_info(data, trade_info) ==
    LET d1 == assign(data, "amount", DictOf(trade_info, TiAmount))
        d2 == assign(d1, "inner_amount", DictOf(trade_info, TiAmount))
        d3 == assign(d2, "deal_amount", DictOf(trade_info, TiDealAmount))
        d4 == assign(d3, "trade_price", DictOf(trade_info, TiTradePrice))
        d5 == assign(d4, "trade_value", DictOf(trade_info, TiTradeValue))
        d6 == assign(d5, "trade_cost", DictOf(trade_info, TiTradeCost))
        d7 == assign(d6, "trade_dir", DictOf(trade_info, TiTradeDir))
    IN  assign(d7, "pa", DictOf(trade_info, TiPa))

\* func of _update_order_fulfill_rate
FulfillRate(deal_amount, amount) ==
    LET tmp_deal_amount == SeriesReplace(deal_amount, NaN, Num(0))
    IN  SeriesOp(Div, tmp_deal_amount, amount)

_update_order_fulfill_rate(data) ==
    IF ~HasColumns(data, {"deal_amount", "amount"}) THEN Failed(data, "KeyError")
    ELSE Ok(assign(data, "ffr", FulfillRate(data["deal_amount"], data["amount"])))

update_order_indicators(data, trade_info) ==
    _update_order_fulfill_rate(_update_order_trade_info(data, trade_info))

\* --------------------------------------------------------- aggregation
Insts == {"A", "B"}

\* the position of an instrument in a Series index (labels are kept sorted)
InstRank(i) == IF i = "A" THEN 1 ELSE 2

\* trade_amount_func applied to every child, in place
NotionalChildren(inner) ==
    [k \in DOMAIN inner |->
        assign(inner[k], "trade_price",
               SeriesOp(Mul, inner[k]["deal_amount"], inner[k]["trade_price"]))]

\* the division without the replacement of a zero deal_amount
AvgTradePriceUnguarded(trade_price, deal_amount) == SeriesOp(Div, trade_price, deal_amount)

\* func of _agg_order_trade_info
AvgTradePrice(trade_price, deal_amount) ==
    LET tmp_deal_amount == SeriesReplace(deal_amount, Num(0), NaN)
    IN  SeriesOp(Div, trade_price, tmp_deal_amount)

\* the price transfer alone: the summed direction codes are left as they are
RecoverPriceOnly(data) ==
    assign(data, "trade_price", AvgTradePrice(data["trade_price"], data["deal_amount"]))

\* the last two transfers of _agg_order_trade_info, on the summed columns
RecoverPriceAndDir(data) ==
    assign(assign(data, "trade_price",
                  AvgTradePrice(data["trade_price"], data["deal_amount"])),
           "trade_dir", SeriesMap(parse_dir, data["trade_dir"]))

\* the loop of _agg_order_trade_info that assigns the summed metrics
AssignSums(data, kids) ==
    LET d1 == assign(data, "inner_amount", sum_all_indicators(kids, "inner_amount"))
        d2 == assign(d1, "deal_amount", sum_all_indicators(kids, "deal_amount"))
        d3 == assign(d2, "trade_price", sum_all_indicators(kids, "trade_price"))
        d4 == assign(d3, "trade_value", sum_all_indicators(kids, "trade_value"))
        d5 == assign(d4, "trade_cost", sum_all_indicators(kids, "trade_cost"))
    IN  assign(d5, "trade_dir", sum_all_indicators(kids, "trade_dir"))

\* Indicator._agg_order_trade_info on the parent table; the children it
\* leaves behind are NotionalChildren(inner)
_agg_order_trade_info(data, inner) ==
    RecoverPriceAndDir(AssignSums(data, NotionalChildren(inner)))

_update_trade_amount(data, decision) == assign(data, "amount", DictOf(decision, TiAmount))

\* what a call of _get_base_vol_pri adds for its pair
Queried(r) ==
    [raised |-> r.raised, queried |-> TRUE, has |-> r.ret = "value", bp |-> r.bp, bv |-> r.bv]

Reused(pr, v) == [raised |-> "none", queried |-> FALSE, has |-> TRUE, bp |-> pr, bv |-> v]

\* one pass of the inner loop of _agg_base_price, for child k and
\* instrument i of the parent's trade_dir index: what the pair raises, and
\* the (price, volume) observation it adds, if any
BasePair(child, range, answer, pa_config, idx, i) ==
    IF IsNaN(Reindex(get_metric_series(child, "base_price"), idx)[i])
    THEN Queried(_get_base_vol_pri(pa_config, range, answer.price_q, answer.vol_q))
    ELSE Reused(Reindex(get_metric_series(child, "base_price"), idx)[i],
                Reindex(get_metric_series(child, "base_volume"), idx)[i])

BasePairs(inner, decision_list, exch, pa_config, idx) ==
    [k \in DOMAIN inner |->
        [i \in idx |-> BasePair(inner[k], decision_list[k], exch[k][i], pa_config, idx, i)]]

\* the loop order of _agg_base_price: children first, then the instruments
\* of trade_dir.items()
Precedes(k1, i1, k2, i2) == k1 < k2 \/ (k1 = k2 /\ InstRank(i1) < InstRank(i2))

\* the passes the two loops make: every pair up to the first that raises
Visited(pairs, idx) ==
    {p \in (DOMAIN pairs) \X idx :
        \A q \in (DOMAIN pairs) \X idx :
            pairs[q[1]][q[2]].raised # "none" => ~Precedes(q[1], q[2], p[1], p[2])}

\* what each pass did: whether it called _get_base_vol_pri (and so the
\* exchange), and the observation it put in bp_new / bv_new, if any
PairLog(pairs, idx) ==
    {[k |-> p[1], i |-> p[2], queried |-> pairs[p[1]][p[2]].queried,
      has |-> pairs[p[1]][p[2]].has, bp |-> pairs[p[1]][p[2]].bp,
      bv |-> pairs[p[1]][p[2]].bv] : p \in Visited(pairs, idx)}

LogOver(inner, decision_list, exch, pa_config, idx) ==
    IF idx = {} THEN {}
    ELSE PairLog(BasePairs(inner, decision_list, exch, pa_config, idx), idx)

\* the first pair, in loop order, that raises
FirstRaise(pairs, idx) ==
    LET bad == {<<k, i>> \in (DOMAIN pairs) \X idx : pairs[k][i].raised # "none"}
        first == CHOOSE p \in bad : \A q \in bad :
                     p[1] < q[1] \/ (p[1] = q[1] /\ InstRank(p[2]) <= InstRank(q[2]))
    IN  IF bad = {} THEN "none" ELSE pairs[first[1]][first[2]].raised

\* bv_all.sum(axis=1) and (bp_all * bv_all).sum(axis=1): sums over the
\* children's columns that skip the missing cells
PairCell(p, weighted) ==
    IF ~p.has THEN NaN ELSE IF weighted THEN Mul(p.bp, p.bv) ELSE p.bv

RECURSIVE SumPairs(_, _, _, _)
SumPairs(pairs, i, k, weighted) ==
    IF k = 0 THEN Num(0)
    ELSE IF IsNaN(PairCell(pairs[k][i], weighted)) THEN SumPairs(pairs, i, k - 1, weighted)
    ELSE Add(PairCell(pairs[k][i], weighted), SumPairs(pairs, i, k - 1, weighted))

\* the index of pd.concat(bp_all, axis=1): the instruments with an observation
Observed(pairs, idx) == {i \in idx : \E k \in DOMAIN pairs : pairs[k][i].has}

BaseVolume(pairs, idx) ==
    [i \in Observed(pairs, idx) |-> SumPairs(pairs, i, Len(pairs), FALSE)]

\* the plain mean of the observed prices
BasePriceUnweighted(pairs, idx) ==
    [i \in Observed(pairs, idx) |->
        Div(SumSkipNa([k \in DOMAIN pairs |-> IF pairs[k][i].has THEN pairs[k][i].bp ELSE NaN],
                      DOMAIN pairs),
            Num(Cardinality({k \in DOMAIN pairs : pairs[k][i].has})))]

BasePrice(pairs, idx) ==
    [i \in Observed(pairs, idx) |->
        Div(SumPairs(pairs, i, Len(pairs), TRUE), SumPairs(pairs, i, Len(pairs), FALSE))]

\* an aggregation that assigns the volume it has before it fails
AssignBaseEager(data, pairs, idx) ==
    IF FirstRaise(pairs, idx) # "none"
    THEN Failed(assign(data, "base_volume", [i \in idx |-> Num(0)]), FirstRaise(pairs, idx))
    ELSE Ok(assign(assign(data, "base_volume", BaseVolume(pairs, idx)),
                   "base_price", BasePrice(pairs, idx)))

\* the end of _agg_base_price, once every pair has been visited
AssignBase(data, pairs, idx) ==
    IF FirstRaise(pairs, idx) # "none" THEN Failed(data, FirstRaise(pairs, idx))
    ELSE Ok(assign(assign(data, "base_volume", BaseVolume(pairs, idx)),
                   "base_price", BasePrice(pairs, idx)))

BaseOver(data, inner, decision_list, exch, pa_config, idx) ==
    IF idx = {} THEN Ok(data)
    ELSE AssignBase(data, BasePairs(inner, decision_list, exch, pa_config, idx), idx)

_agg_base_price(data, inner, decision_list, exch, pa_config) ==
    BaseOver(data, inner, decision_list, exch, pa_config,
             DOMAIN get_metric_series(data, "trade_dir"))

\* the advantage with the sign of the direction the other way round
PriceAdvantageFlipped(trade_dir, trade_price, base_price) ==
    LET sign == SeriesMap(LAMBDA d : Sub(Mul(d, Num(2)), Num(1)), trade_dir)
        rel == SeriesMap(LAMBDA q : Sub(q, Num(1)), SeriesOp(Div, trade_price, base_price))
    IN  SeriesOp(Mul, sign, rel)

\* func of _agg_order_price_advantage
PriceAdvantage(trade_dir, trade_price, base_price) ==
    LET sign == SeriesMap(LAMBDA d : Sub(Num(1), Mul(d, Num(2))), trade_dir)
        rel == SeriesMap(LAMBDA q : Sub(q, Num(1)), SeriesOp(Div, trade_price, base_price))
    IN  SeriesOp(Mul, sign, rel)

\* the advantage without the branch for a table with no trade
AdvantageNoEmptyBranch(data) ==
    IF ~HasColumns(data, {"trade_dir", "trade_price", "base_price"})
    THEN Failed(data, "KeyError")
    ELSE Ok(assign(data, "pa",
                   PriceAdvantage(data["trade_dir"], data["trade_price"], data["base_price"])))

_agg_order_price_advantage(data) ==
    IF ~HasColumns(data, {"trade_price"}) THEN Failed(data, "KeyError")
    ELSE IF data["trade_price"] = EmptySeries THEN Ok(assign(data, "pa", EmptySeries))
    ELSE IF ~HasColumns(data, {"trade_dir", "trade_price", "base_price"})
         THEN Failed(data, "KeyError")
    ELSE Ok(assign(data, "pa",
                   PriceAdvantage(data["trade_dir"], data["trade_price"], data["base_price"])))

\* agg_order_indicators from its last call on: the price advantage
AggAdvantage(r) == IF r.raised # "none" THEN r ELSE _agg_order_price_advantage(r.data)

\* agg_order_indicators from the baseline on
AggBaseline(r, inner, decision_list, exch, pa_config) ==
    IF r.raised # "none" THEN r
    ELSE AggAdvantage(_agg_base_price(r.data, inner, decision_list, exch, pa_config))

\* Indicator.agg_order_indicators: the parent table it leaves and what it
\* raised (the children are left as NotionalChildren(inner))
agg_order_indicators(data, inner, decision_list, decision, exch, indicator_config) ==
    AggBaseline(
        _update_order_fulfill_rate(
            _update_trade_amount(_agg_order_trade_info(data, inner), decision)),
        inner, decision_list, exch, indicator_config)

\* the passes of _agg_base_price inside one agg_order_indicators call
agg_log(data, inner, decision_list, exch, indicator_config) ==
    LogOver(inner, decision_list, exch, indicator_config,
            DOMAIN get_metric_series(_agg_order_trade_info(data, inner), "trade_dir"))

\* ------------------------------------------------------- step reduction
\* sum(metric * |w|) / sum(|w|)
WeightedMean(metric, w) ==
    Div(SeriesSum(SeriesOp(Mul, metric, SeriesMap(FAbs, w))), SeriesSum(SeriesMap(FAbs, w)))

WeightColumn(method) ==
    CASE method = "amount_weighted" -> "deal_amount"
      [] method = "value_weighted" -> "trade_value"
      [] OTHER -> "none"

\* _cal_trade_fulfill_rate and _cal_trade_price_advantage: the same three
\* methods over the column metric (ffr, pa)
CalWeighted(data, metric, method) ==
    IF method \notin {"mean", "amount_weighted", "value_weighted"}
    THEN [raised |-> "ValueError", v |-> NaN]
    ELSE IF ~HasColumns(data, {metric} \cup ({WeightColumn(method)} \ {"none"}))
    THEN [raised |-> "KeyError", v |-> NaN]
    ELSE [raised |-> "none",
          v |-> IF method = "mean" THEN SeriesMean(data[metric])
                ELSE WeightedMean(data[metric], data[WeightColumn(method)])]

_cal_trade_fulfill_rate(data, method) == CalWeighted(data, "ffr", method)

_cal_trade_price_advantage(data, method) == CalWeighted(data, "pa", method)

\* (pa > 0).astype(int).sum() / pa.count()
_cal_trade_positive_rate(data) ==
    LET pa == data["pa"]
    IN  Div(Num(Cardinality({i \in DOMAIN pa : Lt(Num(0), pa[i])})), Num(SeriesCount(pa)))

_cal_deal_amount(data) == SeriesSum(SeriesMap(FAbs, data["deal_amount"]))

_cal_trade_value(data) == SeriesSum(SeriesMap(FAbs, data["trade_value"]))

_cal_trade_order_count(data) == Num(SeriesCount(data["amount"]))

\* a reduction that stores each scalar as soon as it is computed
CalStoresAsItGoes(data, ti, indicator_config) ==
    LET fulfill_rate ==
            _cal_trade_fulfill_rate(data, ConfigGet(indicator_config.ffr_weight, "mean"))
        price_advantage ==
            _cal_trade_price_advantage(data, ConfigGet(indicator_config.pa_weight, "mean"))
        first == [m \in (DOMAIN ti) \cup {"ffr"} |->
                     IF m = "ffr" THEN fulfill_rate.v ELSE ti[m]]
        written == [ffr |-> fulfill_rate.v, pa |-> price_advantage.v,
                    pos |-> _cal_trade_positive_rate(data),
                    deal_amount |-> _cal_deal_amount(data),
                    value |-> _cal_trade_value(data),
                    count |-> _cal_trade_order_count(data)]
    IN  IF fulfill_rate.raised # "none" THEN [raised |-> fulfill_rate.raised, ti |-> ti]
        ELSE IF price_advantage.raised # "none"
             THEN [raised |-> price_advantage.raised, ti |-> first]
        ELSE IF ~HasColumns(data, {"deal_amount", "trade_value", "amount"})
             THEN [raised |-> "KeyError", ti |-> first]
        ELSE [raised |-> "none",
              ti |-> [m \in (DOMAIN ti) \cup DOMAIN written |->
                         IF m \in DOMAIN written THEN written[m] ELSE ti[m]]]

\* Indicator.cal_trade_indicators: what it raised and, when it raised
\* nothing, the trade_indicator mapping it leaves (ti is the mapping before)
cal_trade_indicators(data, ti, indicator_config) ==
    LET fulfill_rate ==
            _cal_trade_fulfill_rate(data, ConfigGet(indicator_config.ffr_weight, "mean"))
        price_advantage ==
            _cal_trade_price_advantage(data, ConfigGet(indicator_config.pa_weight, "mean"))
        written == [ffr |-> fulfill_rate.v, pa |-> price_advantage.v,
                    pos |-> _cal_trade_positive_rate(data),
                    deal_amount |-> _cal_deal_amount(data),
                    value |-> _cal_trade_value(data),
                    count |-> _cal_trade_order_count(data)]
    IN  IF fulfill_rate.raised # "none" THEN [raised |-> fulfill_rate.raised, ti |-> ti]
        ELSE IF price_advantage.raised # "none"
             THEN [raised |-> price_advantage.raised, ti |-> ti]
        ELSE IF ~HasColumns(data, {"deal_amount", "trade_value", "amount"})
             THEN [raised |-> "KeyError", ti |-> ti]
        ELSE [raised |-> "none",
              ti |-> [m \in (DOMAIN ti) \cup DOMAIN written |->
                         IF m \in DOMAIN written THEN written[m] ELSE ti[m]]]

\* ------------------------------------------------------------------ state
VARIABLES
    order_indicator,       \* self.order_indicator.data of the Indicator
    trade_indicator,       \* self.trade_indicator: the identity of a mapping
    heap,                  \* the trade-indicator mappings ever created, by identity
    order_indicator_his,   \* OrderedDict: sequence of [t, v], v a table snapshot
    trade_indicator_his,   \* OrderedDict: sequence of [t, v], v a mapping identity
    inner,                 \* inner_order_indicators the executor holds for this step
    raised,                \* what the last call on the Indicator raised
    call,                  \* the last call on the Indicator and its arguments
    nops,                  \* number of calls made so far
    pri_in,                \* arguments of a _get_base_vol_pri call
    pri_out,               \* its outcome
    report,                \* the fields of a Report
    report_call            \* the last update_report_record call and what it raised

vars == <<order_indicator, trade_indicator, heap, order_indicator_his,
          trade_indicator_his, inner, raised, call, nops, pri_in, pri_out, report, report_call>>

indicator_vars == <<order_indicator, trade_indicator, heap, order_indicator_his,
                    trade_indicator_his, inner, raised, call, nops>>

\* a mapping that keeps its keys sorted instead
DictSetSorted(his, t, v) ==
    IF \E k \in DOMAIN his : his[k].t = t
    THEN [k \in DOMAIN his |-> IF his[k].t = t THEN [t |-> t, v |-> v] ELSE his[k]]
    ELSE LET below == SelectSeq(his, LAMBDA e : e.t < t)
             above == SelectSeq(his, LAMBDA e : e.t > t)
         IN  below \o <<[t |-> t, v |-> v]>> \o above

\* OrderedDict.__setitem__: a known key keeps its place, a new one goes last
DictSet(his, t, v) ==
    IF \E k \in DOMAIN his : his[k].t = t
    THEN [k \in DOMAIN his |-> IF his[k].t = t THEN [t |-> t, v |-> v] ELSE his[k]]
    ELSE Append(his, [t |-> t, v |-> v])

Keys(his) == {his[k].t : k \in DOMAIN his}

DictGet(his, t) == his[CHOOSE k \in DOMAIN his : his[k].t = t].v

\* PandasOrderIndicator.to_series(): the columns as they are at the call
to_series(data) == data

get_order_indicator == to_series(order_indicator)

\* get_trade_indicator returns the mapping itself, not a copy
get_trade_indicator == trade_indicator

\* pd.DataFrame.from_dict(self.trade_indicator_his, orient="index"): one row
\* per archived mapping that holds a value, in the order of the keys
HasRow(e) == heap[e.v] # EmptySeries

generate_trade_indicators_dataframe ==
    LET kept == SelectSeq(trade_indicator_his, HasRow)
    IN  [k \in DOMAIN kept |-> [t |-> kept[k].t, row |-> heap[kept[k].v]]]

DefaultConfig == [agg |-> Unset, price |-> Unset, ffr_weight |-> Unset, pa_weight |-> Unset]

NoCall == [op |-> "init", t |-> 0, inner |-> <<>>, decision_list |-> <<>>,
           decision |-> <<>>, exch |-> <<>>, cfg |-> DefaultConfig, log |-> {}]

NoPriCall == [cfg |-> [agg |-> Unset, price |-> Unset], range |-> "None",
              price_q |-> NoData, vol_q |-> NoData]

NotCalled == [raised |-> "none", ret |-> "not called", bp |-> NaN, bv |-> NaN]

\* Indicator.__init__
InitIndicator ==
    /\ order_indicator = EmptyTable
    /\ heap = <<EmptySeries>>
    /\ trade_indicator = 1
    /\ order_indicator_his = <<>>
    /\ trade_indicator_his = <<>>
    /\ inner = <<>>
    /\ raised = "none"
    /\ call = NoCall
    /\ nops = 0

\* ----------------------------------------------------------------- Report
\* Python's None, and a timestamp
None == [none |-> TRUE]

Time(t) == [t |-> t]

\* Report.init_vars; bench is self.bench, set by init_bench: None or a series
init_vars(bench) ==
    [accounts |-> <<>>, returns |-> <<>>, total_turnovers |-> <<>>, turnovers |-> <<>>,
     total_costs |-> <<>>, costs |-> <<>>, values |-> <<>>, cashes |-> <<>>,
     benches |-> <<>>, latest_report_time |-> None, bench |-> bench]

is_empty(self) == Len(self.accounts) = 0

\* Report._sample_benchmark; ret is what resam_ts_data returns for the window
_sample_benchmark(self, ret) ==
    IF self.bench = None THEN None
    ELSE IF ret = None THEN Num(0) ELSE Sub(ret, Num(1))

\* the arguments update_report_record requires
Required ==
    {"trade_start_time", "account_value", "cash", "return_rate", "total_turnover",
     "turnover_rate", "total_cost", "cost_rate", "stock_value"}

\* the nine stores and the update of latest_report_time
StoreRecord(self, a, bench_value) ==
    [self EXCEPT !.accounts = DictSet(@, a.trade_start_time, a.account_value),
                 !.returns = DictSet(@, a.trade_start_time, a.return_rate),
                 !.total_turnovers = DictSet(@, a.trade_start_time, a.total_turnover),
                 !.turnovers = DictSet(@, a.trade_start_time, a.turnover_rate),
                 !.total_costs = DictSet(@, a.trade_start_time, a.total_cost),
                 !.costs = DictSet(@, a.trade_start_time, a.cost_rate),
                 !.values = DictSet(@, a.trade_start_time, a.stock_value),
                 !.cashes = DictSet(@, a.trade_start_time, a.cash),
                 !.benches = DictSet(@, a.trade_start_time, bench_value),
                 !.latest_report_time = a.trade_start_time]

\* an update that stores the account value before it looks at the benchmark
UpdateStoresAccountFirst(self, a, ret) ==
    IF \E f \in Required : a[f] = None THEN [self |-> self, raised |-> "ValueError"]
    ELSE IF a.trade_end_time = None /\ a.bench_value = None
    THEN [self |-> [self EXCEPT !.accounts = DictSet(@, a.trade_start_time, a.account_value)],
          raised |-> "ValueError"]
    ELSE [self |-> StoreRecord(self, a, IF a.bench_value = None
                                        THEN _sample_benchmark(self, ret)
                                        ELSE a.bench_value),
          raised |-> "none"]

\* Report.update_report_record: the Report it leaves and what it raised
update_report_record(self, a, ret) ==
    IF \E f \in Required : a[f] = None THEN [self |-> self, raised |-> "ValueError"]
    ELSE IF a.trade_end_time = None /\ a.bench_value = None
    THEN [self |-> self, raised |-> "ValueError"]
    ELSE [self |-> StoreRecord(self, a, IF a.bench_value = None
                                        THEN _sample_benchmark(self, ret)
                                        ELSE a.bench_value),
          raised |-> "none"]

NoReportCall == [op |-> "init", trade_start_time |-> None, raised |-> "none"]

\* ---------------------------------------------------------------- actions
\* a reset that empties the live mapping instead of replacing it
ResetInPlace ==
    /\ order_indicator' = EmptyTable
    /\ heap' = [heap EXCEPT ![trade_indicator] = EmptySeries]
    /\ raised' = "none"
    /\ call' = [NoCall EXCEPT !.op = "reset"]
    /\ nops' = nops + 1
    /\ UNCHANGED <<trade_indicator, order_indicator_his, trade_indicator_his, inner,
                   pri_in, pri_out, report, report_call>>

reset ==
    /\ order_indicator' = EmptyTable
    /\ heap' = Append(heap, EmptySeries)
    /\ trade_indicator' = Len(heap) + 1
    /\ raised' = "none"
    /\ call' = [NoCall EXCEPT !.op = "reset"]
    /\ nops' = nops + 1
    /\ UNCHANGED <<order_indicator_his, trade_indicator_his, inner, pri_in, pri_out, report, report_call>>

record(trade_start_time) ==
    /\ order_indicator_his' = DictSet(order_indicator_his, trade_start_time, get_order_indicator)
    /\ trade_indicator_his' = DictSet(trade_indicator_his, trade_start_time, get_trade_indicator)
    /\ raised' = "none"
    /\ call' = [NoCall EXCEPT !.op = "record", !.t = trade_start_time]
    /\ nops' = nops + 1
    /\ UNCHANGED <<order_indicator, trade_indicator, heap, inner, pri_in, pri_out, report, report_call>>

\* the table a call leaves on the Indicator, and what the call raised
Leaves(r) == order_indicator' = r.data /\ raised' = r.raised

UpdateOrderIndicators(trade_info) ==
        /\ Leaves(update_order_indicators(order_indicator, trade_info))
        /\ call' = [NoCall EXCEPT !.op = "update", !.decision = trade_info]
        /\ nops' = nops + 1
        /\ UNCHANGED <<trade_indicator, heap, order_indicator_his, trade_indicator_his,
                       inner, pri_in, pri_out, report, report_call>>

AggOrderIndicators(decision_list, decision, exch, indicator_config) ==
        /\ Leaves(agg_order_indicators(order_indicator, inner, decision_list, decision,
                                       exch, indicator_config))
        /\ inner' = NotionalChildren(inner)
        /\ call' = [op |-> "agg", t |-> 0, inner |-> inner,
                    decision_list |-> decision_list, decision |-> decision,
                    exch |-> exch, cfg |-> indicator_config,
                    log |-> agg_log(order_indicator, inner, decision_list, exch,
                                    indicator_config)]
        /\ nops' = nops + 1
        /\ UNCHANGED <<trade_indicator, heap, order_indicator_his, trade_indicator_his,
                       pri_in, pri_out, report, report_call>>

\* the mapping a cal_trade_indicators call leaves, and what the call raised
Writes(r) == heap' = [heap EXCEPT ![trade_indicator] = r.ti] /\ raised' = r.raised

CalTradeIndicators(indicator_config) ==
        /\ Writes(cal_trade_indicators(order_indicator, heap[trade_indicator],
                                       indicator_config))
        /\ call' = [NoCall EXCEPT !.op = "cal", !.cfg = indicator_config]
        /\ nops' = nops + 1
        /\ UNCHANGED <<order_indicator, trade_indicator, order_indicator_his,
                       trade_indicator_his, inner, pri_in, pri_out, report, report_call>>

\* the executor below: one inner Indicator records its fills on a new table
\* and hands the raw table up
InnerLeafStep(trade_info) ==
    /\ inner' = Append(inner, update_order_indicators(EmptyTable, trade_info).data)
    /\ UNCHANGED <<order_indicator, trade_indicator, heap, order_indicator_his,
                   trade_indicator_his, raised, call, nops, pri_in, pri_out, report, report_call>>

\* the executor below is itself nested: its Indicator aggregates the tables
\* collected so far on a new table and hands that one up
HandsUp(r) == r.raised = "none" /\ inner' = <<r.data>>

InnerAggStep(decision_list, decision, exch, indicator_config) ==
        /\ HandsUp(agg_order_indicators(EmptyTable, inner, decision_list, decision,
                                        exch, indicator_config))
        /\ UNCHANGED <<order_indicator, trade_indicator, heap, order_indicator_his,
                       trade_indicator_his, raised, call, nops, pri_in, pri_out, report, report_call>>

\* ---------------------------------------------------------------- inputs
\* one entry of trade_info: the order's fields and the realized value, cost
\* and price of its fill.  dir is the direction code, sign = 2 * dir - 1.
Fill(i, dir, amount, deal, price) ==
    [stock_id |-> i, direction |-> Num(dir), sign |-> Num(2 * dir - 1),
     amount_delta |-> Num((2 * dir - 1) * amount),
     deal_amount_delta |-> Num((2 * dir - 1) * deal),
     trade_val |-> Num(deal * price), trade_cost |-> Num(1), trade_price |-> Num(price)]

FillsOf(i) ==
    {Fill(i, 1, 2, 2, 10), Fill(i, 1, 2, 1, 12), Fill(i, 0, 2, 2, 12), Fill(i, 1, 2, 0, 10)}

\* the fills one inner step reports: none, one instrument, or both
LeafInfos ==
    {<<>>} \cup {<<a>> : a \in FillsOf("A")} \cup {<<b>> : b \in {Fill("B", 0, 2, 1, 12)}}
      \cup {<<a, b>> : a \in {Fill("A", 1, 2, 1, 12)}, b \in {Fill("B", 0, 2, 1, 12)}}

\* the outer decision's orders (only stock_id and amount_delta are read)
Decisions ==
    {<<>>, <<Fill("A", 1, 2, 0, 10)>>, <<Fill("A", 1, 0, 0, 10)>>,
     <<Fill("A", 1, 2, 0, 10), Fill("B", 0, 2, 0, 10)>>}

Series2(a, b) == [kind |-> "series", s |-> <<a, b>>]

GoodAnswer == [price_q |-> Series2(Num(5), Num(6)), vol_q |-> NoData]

NoAnswer == [price_q |-> NoData, vol_q |-> NoData]

FailingAnswer == [price_q |-> QueryFails, vol_q |-> NoData]

Answers ==
    {GoodAnswer, NoAnswer, FailingAnswer,
     [price_q |-> [kind |-> "scalar", s |-> <<Num(10)>>], vol_q |-> NoData],
     [price_q |-> Series2(Num(12), Num(13)), vol_q |-> NoData],
     [price_q |-> [kind |-> "scalar", s |-> <<Num(0)>>], vol_q |-> NoData],
     [price_q |-> Series2(Num(5), Num(6)), vol_q |-> Series2(Num(1), Num(3))]}

\* what the exchange answers for child k's window and instrument i
Exchanges(n, answers) == {[k \in 1..n |-> [i \in Insts |-> a]] : a \in answers}

RangeLists(n, ranges) == {[k \in 1..n |-> r] : r \in ranges}

\* pa_config of an aggregation: the default (twap) and the volume-weighted one
PolicyConfigs == {DefaultConfig, [DefaultConfig EXCEPT !.agg = "vwap"]}

WeightConfigs ==
    {DefaultConfig,
     [DefaultConfig EXCEPT !.ffr_weight = "amount_weighted", !.pa_weight = "value_weighted"]}

\* ------------------------------------------- aggregation of a single step
NoBaseYet == \A k \in DOMAIN inner : "base_price" \notin DOMAIN inner[k]

InitAgg ==
    /\ InitIndicator
    /\ pri_in = NoPriCall
    /\ pri_out = NotCalled
    /\ report = init_vars(None)
    /\ report_call = NoReportCall

\* a nested executor's table is followed by at most one raw table
AggInnerLeaf ==
    \E trade_info \in LeafInfos :
        /\ call.op = "init"
        /\ Len(inner) < MaxChildren
        /\ NoBaseYet \/ Len(inner) = 1
        /\ InnerLeafStep(trade_info)

AggInnerAgg ==
    \E decision \in {<<Fill("A", 1, 2, 0, 10)>>}, exch \in Exchanges(Len(inner), {GoodAnswer}),
       dl \in RangeLists(Len(inner), {"None"}) :
        /\ call.op = "init"
        /\ NoBaseYet
        /\ \E k \in DOMAIN inner : inner[k]["trade_dir"] # EmptySeries
        /\ InnerAggStep(dl, decision, exch, DefaultConfig)

AggOuter ==
    \E decision \in Decisions, exch \in Exchanges(Len(inner), Answers),
       dl \in RangeLists(Len(inner), {"None"}), cfg \in PolicyConfigs :
        call.op = "init" /\ AggOrderIndicators(dl, decision, exch, cfg)

AggCal == \E cfg \in WeightConfigs : call.op = "agg" /\ CalTradeIndicators(cfg)

NextAgg == AggInnerLeaf \/ AggInnerAgg \/ AggOuter \/ AggCal

SpecAgg == InitAgg /\ [][NextAgg]_vars

\* ------------------------------------------------------- the pricer alone
InitPri ==
    /\ InitIndicator
    /\ pri_in \in PriInputs
    /\ pri_out = NotCalled
    /\ report = init_vars(None)
    /\ report_call = NoReportCall

GetBaseVolPri ==
    /\ pri_out = NotCalled
    /\ pri_out' = _get_base_vol_pri(pri_in.cfg, pri_in.range, pri_in.price_q, pri_in.vol_q)
    /\ UNCHANGED <<indicator_vars, pri_in, report, report_call>>

SpecPri == InitPri /\ [][GetBaseVolPri]_vars

\* ------------------------------------------------ the Indicator's life
Timestamps == 1..MaxTime

StepInfos == {<<Fill("A", 1, 2, 1, 12)>>}

StepDecision == <<Fill("A", 1, 2, 0, 10)>>

\* aggregations of a step: one that resolves its baseline, and three that
\* cannot
StepScenarios ==
    {[decision |-> StepDecision, answer |-> GoodAnswer, range |-> "None",
      cfg |-> DefaultConfig],
     [decision |-> StepDecision, answer |-> FailingAnswer, range |-> "None",
      cfg |-> DefaultConfig],
     [decision |-> StepDecision, answer |-> GoodAnswer, range |-> "IdxTradeRange",
      cfg |-> DefaultConfig],
     [decision |-> StepDecision, answer |-> GoodAnswer, range |-> "None",
      cfg |-> [DefaultConfig EXCEPT !.price = "$close"]]}

StepConfigs ==
    {DefaultConfig,
     [DefaultConfig EXCEPT !.ffr_weight = "median"],
     [DefaultConfig EXCEPT !.pa_weight = "Mean"]}

Init ==
    /\ InitIndicator
    /\ pri_in = NoPriCall
    /\ pri_out = NotCalled
    /\ report = init_vars(None)
    /\ report_call = NoReportCall

DoReset == nops < MaxOps /\ reset

DoRecord == \E t \in Timestamps : nops < MaxOps /\ record(t)

DoUpdate == \E trade_info \in StepInfos : nops < MaxOps /\ UpdateOrderIndicators(trade_info)

DoAgg ==
    \E sc \in StepScenarios :
        /\ nops < MaxOps
        /\ AggOrderIndicators([k \in DOMAIN inner |-> sc.range], sc.decision,
                              [k \in DOMAIN inner |-> [i \in Insts |-> sc.answer]], sc.cfg)

DoCal == \E cfg \in StepConfigs : nops < MaxOps /\ CalTradeIndicators(cfg)

DoInnerLeaf == inner = <<>> /\ nops < MaxOps /\ InnerLeafStep(<<Fill("A", 1, 2, 2, 10)>>)

Next == DoReset \/ DoRecord \/ DoUpdate \/ DoAgg \/ DoCal \/ DoInnerLeaf

Spec == Init /\ [][Next]_vars

\* ------------------------------------------------------- the Report's life
\* a call with every argument given
GoodArgs(t) ==
    [trade_start_time |-> Time(t), trade_end_time |-> Time(t + 1), account_value |-> Num(7),
     cash |-> Num(1), return_rate |-> Num(0), total_turnover |-> Num(2),
     turnover_rate |-> Num(1), total_cost |-> Num(1), cost_rate |-> Num(0),
     stock_value |-> Num(6), bench_value |-> Num(1)]

\* calls with trade_end_time or bench_value left out, and calls with one
\* required argument left out
ReportArgs ==
    {[GoodArgs(t) EXCEPT !.trade_end_time = IF e THEN @ ELSE None, !.bench_value = b] :
        t \in Timestamps, e \in BOOLEAN, b \in {None, Num(1)}}
      \cup {[GoodArgs(1) EXCEPT ![f] = None] : f \in Required}

\* what resam_ts_data finds in the benchmark for a window
Resampled == {None, Num(3)}

InitReport ==
    /\ InitIndicator
    /\ pri_in = NoPriCall
    /\ pri_out = NotCalled
    /\ report \in {init_vars(None), init_vars([kind |-> "series"])}
    /\ report_call = NoReportCall

Becomes(r, a) ==
    /\ report' = r.self
    /\ report_call' = [op |-> "update", trade_start_time |-> a.trade_start_time,
                       raised |-> r.raised]

UpdateReportRecord ==
    \E a \in ReportArgs :
        \E ret \in IF a.bench_value = None /\ report.bench # None THEN Resampled ELSE {None} :
            /\ Becomes(update_report_record(report, a, ret), a)
            /\ UNCHANGED <<indicator_vars, pri_in, pri_out>>

SpecReport == InitReport /\ [][UpdateReportRecord]_vars

\* ================================================================ claims
PriCalled == pri_out # NotCalled

PolicyAgg == Lower(ConfigGet(pri_in.cfg.agg, "twap"))

PolicyPrice == Lower(ConfigGet(pri_in.cfg.price, "deal_price"))

\* C3: every call of _get_base_vol_pri whose pa_config names an aggregation
\* other than twap/vwap or a price source other than deal_price raises, for
\* every market-data outcome; it never returns a result under such a policy.
C3_UnsupportedPolicyRaises ==
    (PriCalled /\ (PolicyAgg \notin {"twap", "vwap"} \/ PolicyPrice # "deal_price"))
        => pri_out.raised # "none"

\* the entries of the queried price series that are not below the epsilon
C8_Kept == {i \in DOMAIN pri_in.price_q.s :
               ~(IsFinite(pri_in.price_q.s[i])
                   /\ pri_in.price_q.s[i].n * 100000000 < pri_in.price_q.s[i].d)}

RECURSIVE C8_Total(_, _)
C8_Total(S, skip_missing) ==
    IF S = {} THEN Num(0)
    ELSE LET i == CHOOSE j \in S : TRUE
             x == pri_in.price_q.s[i]
         IN  IF skip_missing /\ IsNaN(x) THEN C8_Total(S \ {i}, skip_missing)
             ELSE Add(x, C8_Total(S \ {i}, skip_missing))

C8_TwapReturned == PriCalled /\ PolicyAgg = "twap" /\ pri_out.ret = "value"

\* C8 as claimed: under twap every entry below 1e-8 is discarded, base_volume
\* is the number of remaining entries and base_price is their arithmetic mean.
C8_TwapIsMeanOfKept ==
    C8_TwapReturned =>
        /\ pri_out.bv = Num(Cardinality(C8_Kept))
        /\ pri_out.bp = Div(C8_Total(C8_Kept, FALSE), Num(Cardinality(C8_Kept)))

\* C8 as amended: under twap every entry below 1e-8 is discarded, base_volume
\* is the number of remaining entries (missing prices included) and
\* base_price is the sum of the remaining prices that are present divided by
\* base_volume; that is their arithmetic mean when none of them is missing.
C8_TwapSumOverCount ==
    C8_TwapReturned =>
        /\ pri_out.bv = Num(Cardinality(C8_Kept))
        /\ pri_out.bp = Div(C8_Total(C8_Kept, TRUE), Num(Cardinality(C8_Kept)))
        /\ (\A i \in C8_Kept : ~IsNaN(pri_in.price_q.s[i]))
              => pri_out.bp = Div(C8_Total(C8_Kept, FALSE), Num(Cardinality(C8_Kept)))

\* the spec's example: {0, 1e-9, 5.0, 6.0} gives base_price 5.5, base_volume 2
C8_Witness ==
    /\ C8_TwapReturned
    /\ pri_in.price_q.s = <<Num(0), Tiny, Num(5), Num(6)>>
    /\ pri_out.bp = [n |-> 11, d |-> 2]
    /\ pri_out.bv = Num(2)

\* ------------------------------------------------------------- histories
DataframeIndex ==
    [k \in DOMAIN generate_trade_indicators_dataframe |->
        generate_trade_indicators_dataframe[k].t]

PosIn(q, t) == CHOOSE k \in DOMAIN q : q[k] = t

Range(q) == {q[k] : k \in DOMAIN q}

\* C1 as claimed: whatever the order of the record calls, the table of
\* generate_trade_indicators_dataframe lists its rows by ascending timestamp.
C1_RowsAscending ==
    \A j, k \in DOMAIN DataframeIndex : j < k => DataframeIndex[j] < DataframeIndex[k]

\* C1 as amended: the table lists its rows in the order in which their
\* timestamps were first recorded: no call reorders the rows it already
\* has, and the row of a timestamp recorded for the first time goes last.
C1_RowsInRecordOrder ==
    [][/\ \A a, b \in Range(DataframeIndex) \cap Range(DataframeIndex') :
             PosIn(DataframeIndex, a) < PosIn(DataframeIndex, b)
                 => PosIn(DataframeIndex', a) < PosIn(DataframeIndex', b)
       /\ (/\ call'.op = "record"
           /\ call'.t \notin Keys(trade_indicator_his)
           /\ call'.t \in Range(DataframeIndex'))
              => DataframeIndex'[Len(DataframeIndex')] = call'.t]_vars

C1_Witness == DataframeIndex = <<2, 3, 1>>

OrderEntry(t) == DictGet(order_indicator_his, t)

TradeEntry(t) == heap[DictGet(trade_indicator_his, t)]

Recorded(t) == call'.op = "record" /\ call'.t = t /\ nops' # nops

\* C2 as claimed: once record(t) has archived the step, the order-indicator
\* and trade-indicator entries under t keep their content through every later
\* call, whether or not reset is called before the next step is populated.
C2_ArchivedNeverChanges ==
    [][\A t \in Keys(trade_indicator_his) :
          \/ Recorded(t)
          \/ OrderEntry(t)' = OrderEntry(t) /\ TradeEntry(t)' = TradeEntry(t)]_vars

\* C2 as amended: the entries under t keep their content through every later
\* call once reset has been called after record(t); until then the archived
\* trade-indicator mapping is the live one (the entry is the Indicator's
\* current mapping), and only a call that populates the step can change it.
C2_ArchivedKeptAfterReset ==
    [][\A t \in Keys(trade_indicator_his) :
          \/ Recorded(t)
          \/ OrderEntry(t)' = OrderEntry(t) /\ TradeEntry(t)' = TradeEntry(t)
          \/ /\ DictGet(trade_indicator_his, t) = trade_indicator
             /\ call'.op \in {"cal", "update", "agg"}
             /\ OrderEntry(t)' = OrderEntry(t)]_vars

\* an archived step, a reset, and a next step populated and reduced
C2_Witness ==
    \E t \in Keys(trade_indicator_his) :
        /\ DictGet(trade_indicator_his, t) # trade_indicator
        /\ OrderEntry(t) # EmptyTable
        /\ call.op = "cal"
        /\ raised = "none"
        /\ heap[trade_indicator] # TradeEntry(t)

\* ------------------------------------------------ aggregation of a step
Aggregated == call.op = "agg"

\* what the children of the last aggregation held for instrument i, summed:
\* a child that lists no value for i adds nothing
RECURSIVE ChildSum(_, _, _)
ChildSum(children, metric, i) ==
    IF children = <<>> THEN Num(0)
    ELSE LET s == get_metric_series(Head(children), metric)
         IN  Add(IF i \in DOMAIN s /\ ~IsNaN(s[i]) THEN s[i] ELSE Num(0),
                 ChildSum(Tail(children), metric, i))

RECURSIVE ChildNotional(_, _)
ChildNotional(children, i) ==
    IF children = <<>> THEN Num(0)
    ELSE LET da == get_metric_series(Head(children), "deal_amount")
             tp == get_metric_series(Head(children), "trade_price")
             v == IF i \in DOMAIN da /\ i \in DOMAIN tp THEN Mul(da[i], tp[i]) ELSE NaN
         IN  Add(IF IsNaN(v) THEN Num(0) ELSE v, ChildNotional(Tail(children), i))

ChildInsts(children) ==
    UNION {DOMAIN get_metric_series(children[k], "trade_price") : k \in DOMAIN children}

NoInstrument(children) ==
    \A k \in DOMAIN children : \A c \in DOMAIN children[k] : children[k][c] = EmptySeries

\* C4: a step with zero orders (an outer decision of no order over children
\* that hold no instrument) aggregates and reduces without error: the table
\* has no instrument, pa is assigned as an empty column, and the summary has
\* count = 0 and deal_amount = 0.
C4_ZeroOrderStep ==
    [][(/\ Aggregated
        /\ call.decision = <<>>
        /\ NoInstrument(call.inner)
        /\ call'.op = "cal")
          => /\ raised = "none"
             /\ raised' = "none"
             /\ \A c \in DOMAIN order_indicator : order_indicator[c] = EmptySeries
             /\ "pa" \in DOMAIN order_indicator
             /\ heap'[trade_indicator]["count"] = Num(0)
             /\ heap'[trade_indicator]["deal_amount"] = Num(0)]_vars

C4_Witness ==
    /\ call.op = "cal"
    /\ raised = "none"
    /\ Len(inner) = MaxChildren
    /\ NoInstrument(inner)
    /\ "pa" \in DOMAIN order_indicator
    /\ \A c \in DOMAIN order_indicator : order_indicator[c] = EmptySeries
    /\ heap[trade_indicator]["count"] = Num(0)

\* C5: after _update_order_fulfill_rate, every instrument with a non-zero
\* amount and a missing deal_amount has ffr = 0, not a missing value, and
\* every instrument with both present has ffr = deal_amount / amount.
C5_MissingDealIsZeroFill ==
    (Aggregated \/ call.op = "update") =>
        \A i \in DOMAIN order_indicator["amount"] :
            IF i \in DOMAIN order_indicator["deal_amount"]
                /\ ~IsNaN(order_indicator["deal_amount"][i])
            THEN /\ i \in DOMAIN order_indicator["ffr"]
                 /\ order_indicator["ffr"][i] =
                        Div(order_indicator["deal_amount"][i], order_indicator["amount"][i])
            ELSE order_indicator["amount"][i] # Num(0)
                    => /\ i \in DOMAIN order_indicator["ffr"]
                       /\ order_indicator["ffr"][i] = Num(0)

\* C6: after _agg_order_trade_info, for every instrument of the children the
\* parent trade_price is (sum over children of deal_amount * trade_price)
\* over (sum over children of deal_amount) when that sum is not zero, and
\* the missing value, never an infinite one, when it is zero.
C6_WeightedAveragePrice ==
    Aggregated =>
        /\ DOMAIN order_indicator["trade_price"] = ChildInsts(call.inner)
        /\ \A i \in ChildInsts(call.inner) :
              IF ChildSum(call.inner, "deal_amount", i) # Num(0)
              THEN order_indicator["trade_price"][i] =
                       Div(ChildNotional(call.inner, i), ChildSum(call.inner, "deal_amount", i))
              ELSE IsNaN(order_indicator["trade_price"][i])

\* two children that filled 2 at 10 and 1 at 12
C6_Witness ==
    /\ Aggregated
    /\ Len(call.inner) = 2
    /\ \A k \in 1..2 : "A" \in DOMAIN call.inner[k]["deal_amount"]
    /\ call.inner[1]["trade_price"]["A"] # call.inner[2]["trade_price"]["A"]
    /\ order_indicator["trade_price"]["A"] = Norm(32, 3)

\* C7: after _agg_order_price_advantage on a table that is not empty, for
\* every instrument with a trade_price and a positive base_price: with
\* direction code 0, pa > 0 exactly when trade_price > base_price and pa < 0
\* exactly when trade_price < base_price; with direction code 1 the other way
\* round; pa = 0 exactly when the two prices are equal.
C7_AdvantageSign ==
    (Aggregated /\ raised = "none" /\ order_indicator["trade_price"] # EmptySeries) =>
        \A i \in (DOMAIN order_indicator["trade_price"]) \cap DOMAIN order_indicator["base_price"] :
            LET tp == order_indicator["trade_price"][i]
                bp == order_indicator["base_price"][i]
                pa == order_indicator["pa"][i]
                up == IF order_indicator["trade_dir"][i] = Num(0) THEN Lt(bp, tp) ELSE Lt(tp, bp)
                down == IF order_indicator["trade_dir"][i] = Num(0) THEN Lt(tp, bp) ELSE Lt(bp, tp)
            IN  (IsFinite(tp) /\ IsFinite(bp) /\ Lt(Num(0), bp)) =>
                    /\ i \in DOMAIN order_indicator["pa"]
                    /\ order_indicator["trade_dir"][i] \in {Num(0), Num(1)}
                    /\ Lt(Num(0), pa) <=> up
                    /\ Lt(pa, Num(0)) <=> down
                    /\ (pa = Num(0)) <=> (tp = bp)

\* a sale above the baseline and a purchase above the baseline, side by side
C7_Witness ==
    /\ Aggregated
    /\ raised = "none"
    /\ HasColumns(order_indicator, {"base_price", "pa"})
    /\ DOMAIN order_indicator["base_price"] = {"A", "B"}
    /\ order_indicator["trade_dir"]["A"] = Num(1)
    /\ order_indicator["trade_dir"]["B"] = Num(0)
    /\ Lt(order_indicator["base_price"]["A"], order_indicator["trade_price"]["A"])
    /\ Lt(order_indicator["pa"]["A"], Num(0))
    /\ Lt(Num(0), order_indicator["pa"]["B"])

\* ------------------------------------------------------ failing calls
Supported == {"mean", "amount_weighted", "value_weighted"}

Called(op) == call'.op = op /\ nops' = nops + 1

\* C9: cal_trade_indicators with a weight_method for ffr or for pa outside
\* mean, amount_weighted, value_weighted fails, and the failing call writes
\* no summary scalar: the trade_indicator mapping and both histories are
\* after the call what they were before it.
C9_UnsupportedWeightWritesNothing ==
    [][(/\ Called("cal")
        /\ \/ ConfigGet(call'.cfg.ffr_weight, "mean") \notin Supported
           \/ ConfigGet(call'.cfg.pa_weight, "mean") \notin Supported)
          => /\ raised' # "none"
             /\ trade_indicator' = trade_indicator
             /\ heap' = heap
             /\ order_indicator_his' = order_indicator_his
             /\ trade_indicator_his' = trade_indicator_his]_vars

\* the fulfill rate is computable, the weight of pa is not supported
C9_Witness ==
    /\ call.op = "cal"
    /\ call.cfg.pa_weight = "Mean"
    /\ raised = "ValueError"
    /\ HasColumns(order_indicator, {"ffr", "pa"})
    /\ heap[trade_indicator] = EmptySeries
    /\ Keys(trade_indicator_his) # {}

BaselineErrors == {"TypeError", "NotImplementedError", "QueryError", "AttributeError"}

Untouched(c) ==
    /\ c \in DOMAIN order_indicator' <=> c \in DOMAIN order_indicator
    /\ c \in DOMAIN order_indicator => order_indicator'[c] = order_indicator[c]

\* the call's baseline resolution cannot succeed: a trade range, a price
\* source or a market-data query that fails for every pair it visits
FailingBaseline(c) ==
    /\ c.inner # <<>>
    /\ \E k \in DOMAIN c.inner : c.inner[k]["trade_dir"] # EmptySeries
    /\ \A k \in DOMAIN c.inner : "base_price" \notin DOMAIN c.inner[k]
    /\ \/ \A k \in DOMAIN c.inner : c.decision_list[k] = "IdxTradeRange"
       \/ Lower(ConfigGet(c.cfg.price, "deal_price")) # "deal_price"
       \/ \A k \in DOMAIN c.inner : \A i \in Insts : c.exch[k][i].price_q = QueryFails

\* C10: when baseline resolution fails inside agg_order_indicators, the
\* error reaches the caller, the eight columns assigned before the failure
\* are in the table with their aggregated values, base_price, base_volume
\* and pa are not assigned by the call, and both histories are unchanged.
C10_FailedBaselineKeepsColumns ==
    [][(Called("agg") /\ (FailingBaseline(call') \/ raised' \in BaselineErrors))
          => /\ raised' \in BaselineErrors
             /\ \A c \in {"base_price", "base_volume", "pa"} : Untouched(c)
             /\ HasColumns(order_indicator',
                           {"inner_amount", "deal_amount", "trade_price", "trade_value",
                            "trade_cost", "trade_dir", "amount", "ffr"})
             /\ \A m \in {"inner_amount", "deal_amount", "trade_value", "trade_cost"} :
                   /\ DOMAIN order_indicator'[m] = ChildInsts(call'.inner)
                   /\ \A i \in ChildInsts(call'.inner) :
                         order_indicator'[m][i] = ChildSum(call'.inner, m, i)
             /\ \A i \in ChildInsts(call'.inner) :
                   /\ order_indicator'["trade_dir"][i] \in {Num(0), Num(1)}
                   /\ IF ChildSum(call'.inner, "deal_amount", i) # Num(0)
                      THEN order_indicator'["trade_price"][i] =
                               Div(ChildNotional(call'.inner, i),
                                   ChildSum(call'.inner, "deal_amount", i))
                      ELSE IsNaN(order_indicator'["trade_price"][i])
             /\ order_indicator'["amount"] = DictOf(call'.decision, TiAmount)
             /\ order_indicator'["ffr"] =
                    FulfillRate(order_indicator'["deal_amount"], order_indicator'["amount"])
             /\ heap' = heap
             /\ order_indicator_his' = order_indicator_his
             /\ trade_indicator_his' = trade_indicator_his]_vars

\* a step was archived, then an aggregation met a failing query
C10_Witness ==
    /\ Aggregated
    /\ raised = "QueryError"
    /\ Keys(order_indicator_his) # {}
    /\ "A" \in DOMAIN order_indicator["deal_amount"]
    /\ "ffr" \in DOMAIN order_indicator
    /\ "base_price" \notin DOMAIN order_indicator

\* ------------------------------------------------- baseline of a step
ChildHas(child, i) ==
    /\ "base_price" \in DOMAIN child
    /\ i \in DOMAIN child["base_price"]
    /\ ~IsNaN(child["base_price"][i])

LoggedPairs == {<<e.k, e.i>> : e \in call.log}

\* the pass asked the exchange and a query it made returned no data: the
\* price query, or under the volume-weighted policy the volume query
AnsweredNoData(e) ==
    /\ e.queried
    /\ \/ call.exch[e.k][e.i].price_q = NoData
       \/ /\ Lower(ConfigGet(call.cfg.agg, "twap")) = "vwap"
          /\ call.exch[e.k][e.i].price_q.kind \in {"scalar", "series"}
          /\ call.exch[e.k][e.i].vol_q = NoData

\* C11: during _agg_base_price, for every (child, window) pair and every
\* instrument of the parent's trade_dir column, the exchange is queried
\* exactly when the child's base_price for the instrument is missing; when it
\* is present the child's own base_price and base_volume are the pair's
\* observation and no query is made; a query that returns no data adds no
\* observation and raises no error.
C11_QueryExactlyWhenMissing ==
    Aggregated =>
        /\ \A e \in call.log :
              /\ e.queried <=> ~ChildHas(call.inner[e.k], e.i)
              /\ ChildHas(call.inner[e.k], e.i)
                    => /\ e.has
                       /\ e.bp = call.inner[e.k]["base_price"][e.i]
                       /\ e.bv = call.inner[e.k]["base_volume"][e.i]
              /\ AnsweredNoData(e) => ~e.has /\ raised = "none"
        /\ raised = "none"
              => /\ LoggedPairs = (DOMAIN call.inner) \X DOMAIN order_indicator["trade_dir"]
                 /\ Cardinality(call.log) = Cardinality(LoggedPairs)

\* the observations the passes of the last aggregation made for instrument i
Observations(i) == {e \in call.log : e.i = i /\ e.has}

\* a sum over observations: of the volumes, or of price * volume where the
\* observation has a price
RECURSIVE ObsSum(_, _)
ObsSum(S, weighted) ==
    IF S = {} THEN Num(0)
    ELSE LET e == CHOOSE x \in S : TRUE
             v == IF ~weighted THEN e.bv
                  ELSE IF IsNaN(e.bp) THEN Num(0) ELSE Mul(e.bp, e.bv)
         IN  Add(v, ObsSum(S \ {e}, weighted))

Missing(series, i) == i \notin DOMAIN series \/ IsNaN(series[i])

\* C12: after _agg_base_price on a step that is not empty, for every
\* instrument with at least one (price, volume) observation across the
\* (child, window) pairs, base_volume is the sum of the observed volumes and
\* base_price is the sum of price * volume over the observations divided by
\* that base_volume; an instrument with no observation in any pair has
\* base_price and base_volume missing, not zero.
C12_VolumeWeightedBaseline ==
    (Aggregated /\ raised = "none" /\ order_indicator["trade_dir"] # EmptySeries) =>
        \A i \in DOMAIN order_indicator["trade_dir"] :
            IF Observations(i) # {}
            THEN /\ i \in DOMAIN order_indicator["base_volume"]
                 /\ i \in DOMAIN order_indicator["base_price"]
                 /\ order_indicator["base_volume"][i] = ObsSum(Observations(i), FALSE)
                 /\ order_indicator["base_price"][i] =
                        Div(ObsSum(Observations(i), TRUE), ObsSum(Observations(i), FALSE))
            ELSE /\ Missing(order_indicator["base_volume"], i)
                 /\ Missing(order_indicator["base_price"], i)

\* two observations of A that differ in price and in volume
C12_Witness ==
    /\ Aggregated
    /\ raised = "none"
    /\ HasColumns(order_indicator, {"base_price", "base_volume"})
    /\ \E e1, e2 \in Observations("A") :
          /\ e1.bp # e2.bp
          /\ e1.bv # e2.bv
          /\ IsFinite(e1.bp) /\ IsFinite(e2.bp)
          /\ Lt(e1.bp, order_indicator["base_price"]["A"])
          /\ Lt(order_indicator["base_price"]["A"], e2.bp)

\* ------------------------------------------------------ direction codes
\* the children of the last aggregation that list instrument i in trade_dir
Reporters(i) == {k \in DOMAIN call.inner : i \in DOMAIN call.inner[k]["trade_dir"]}

\* C13: after _agg_order_trade_info over any number of child tables (several
\* children reporting the same instrument, and children that do not report
\* it), every value of the parent trade_dir column is 0 or 1, and when all
\* the children that report an instrument carry the same direction code the
\* parent's trade_dir for that instrument is that code.
C13_DirectionCanonical ==
    Aggregated =>
        /\ DOMAIN order_indicator["trade_dir"] = {i \in Insts : Reporters(i) # {}}
        /\ \A i \in DOMAIN order_indicator["trade_dir"] :
              /\ order_indicator["trade_dir"][i] \in {Num(0), Num(1)}
              /\ \A c \in {Num(0), Num(1)} :
                    (\A k \in Reporters(i) : call.inner[k]["trade_dir"][i] = c)
                        => order_indicator["trade_dir"][i] = c

\* A bought by both children, B sold by one of them only
C13_Witness ==
    /\ Aggregated
    /\ Reporters("A") = {1, 2}
    /\ Cardinality(Reporters("B")) = 1
    /\ \A k \in Reporters("A") : call.inner[k]["trade_dir"]["A"] = Num(1)
    /\ order_indicator["trade_dir"]["A"] = Num(1)
    /\ order_indicator["trade_dir"]["B"] = Num(0)

\* ---------------------------------------------------------------- Report
Maps ==
    <<report.accounts, report.returns, report.total_turnovers, report.turnovers,
      report.total_costs, report.costs, report.values, report.cashes, report.benches>>

ReportConsistent ==
    /\ \A k \in DOMAIN Maps : Keys(Maps[k]) = Keys(report.accounts)
    /\ report.latest_report_time = None <=> is_empty(report)
    /\ ~is_empty(report) => report.latest_report_time \in Keys(report.accounts)

\* C14: in Report, after any sequence of update_report_record calls: a call
\* that fails validation changes no state; the nine per-step maps always have
\* the same key set; latest_report_time is None exactly when is_empty()
\* holds, and otherwise is a key of accounts, the trade_start_time of the
\* most recent successful update.
C14_ReportInvariants ==
    /\ []ReportConsistent
    /\ [][/\ report_call'.raised # "none" => report' = report
          /\ report_call'.raised = "none"
                => report'.latest_report_time = report_call'.trade_start_time]_vars

\* two steps recorded out of order, then a call that failed validation
C14_Witness ==
    /\ report_call.raised = "ValueError"
    /\ Keys(report.accounts) = {Time(1), Time(2)}
    /\ report.accounts[1].t = Time(2)
    /\ report.latest_report_time = Time(1)
    /\ \E k \in DOMAIN report.benches : report.benches[k].v = None

====
